---- MODULE Spec2Model ----
(***************************************************************************)
(* CommentTree: a hierarchical comment store on a materialized-path table. *)
(* The model covers the comments table (schema and constraints), the       *)
(* repository queries, the service orchestration and the HTTP handlers,    *)
(* with every storage call an atomic step of a request.                    *)
(***************************************************************************)
EXTENDS Integers, Sequences, FiniteSets, TLC

(* ---------------------------------------------------------------- bounds *)
\* number of CreateComment calls that reach the service (uuid.New / time.Now)
\* when requests are served one after the other
MaxCreates == 3
\* the same, when requests are served concurrently
MaxRaceCreates == 2
\* number of top-level comments stored in the pagination specification
MaxRoots == 25

\* concurrent HTTP requests in flight
Procs == {1, 2}

(* --------------------------------------------------------------- strings *)
\* Strings are sequences of symbols. A UUID string is one symbol (all UUID
\* strings have the same length), "/" is the symbol SEP, "%" the symbol WILD.
SEP == 0
WILD == -1

\* uuid.New().String() for the n-th generated UUID
UUIDString(n) == <<n>>

\* ParentID *int64: <<>> is nil, <<n>> points to n
Nil == <<>>
Ptr(n) == <<n>>

\* as NewPath, the parent's path forgotten
NewPathWithoutParent(parentPath, pathID) == pathID \o <<SEP>>

\* the path built by Repository.Create
NewPath(parentPath, pathID) == parentPath \o pathID \o <<SEP>>

\* path + "%"
LikePattern(path) == path \o <<WILD>>

\* SQL LIKE: "%" matches any run of symbols, every other symbol itself
RECURSIVE Like(_, _)
Like(s, pat) ==
    IF pat = <<>> THEN s = <<>>
    ELSE IF Head(pat) = WILD
         THEN \E k \in 0..Len(s) : Like(SubSeq(s, k + 1, Len(s)), Tail(pat))
         ELSE s # <<>> /\ Head(s) = Head(pat) /\ Like(Tail(s), Tail(pat))

\* string order used by ORDER BY path
RECURSIVE StrLess(_, _)
StrLess(a, b) ==
    IF b = <<>> THEN FALSE
    ELSE IF a = <<>> THEN TRUE
    ELSE IF Head(a) # Head(b) THEN Head(a) < Head(b)
    ELSE StrLess(Tail(a), Tail(b))

\* strings.ToUpper on the sort orders a request may carry
ToUpper(s) ==
    CASE s = "asc" -> "ASC"
      [] s = "desc" -> "DESC"
      [] OTHER -> s

\* strconv.ParseInt(idStr, 10, 64): ok is FALSE for a malformed number
ParseInt(s) ==
    IF \E n \in -1..(MaxCreates + 1) : ToString(n) = s
    THEN [ok |-> TRUE, v |-> CHOOSE n \in -1..(MaxCreates + 1) : ToString(n) = s]
    ELSE [ok |-> FALSE, v |-> 0]

(* ----------------------------------------------------------------- state *)
VARIABLES
    comments,   \* the rows of table comments
    nextId,     \* the BIGSERIAL sequence of comments.id
    clock,      \* calls of uuid.New / time.Now made so far
    pc,         \* per request: the storage call it is about to make
    req,        \* per request: the HTTP request being served
    resp,       \* per request: the c.JSON writes made so far, in order
    local,      \* per request: the local variables of handler, service, repo
    out,        \* the response sent by the last step, if it ended a request
    snaps       \* per GetComments call in flight: the stored subtrees of its
                \* id at the instants since the call (history, SnapSpec only)

vars == <<comments, nextId, clock, pc, req, resp, local, out, snaps>>

(* ------------------------------------------------------- table comments *)
StoredIds == {c.id : c \in comments}

RowById(id) == CHOOSE c \in comments : c.id = id

\* as RowsLike, the operands of LIKE swapped: $1 LIKE path || '%'
RowsLikeSwapped(rows, pat) ==
    {c \in rows : Like(SubSeq(pat, 1, Len(pat) - 1), c.path \o <<WILD>>)}

\* SELECT ... WHERE path LIKE $1
RowsLike(rows, pat) == {c \in rows : Like(c.path, pat)}

\* parent_id REFERENCES comments(id) ON DELETE CASCADE: rows referencing a
\* deleted row are deleted with it
RECURSIVE Cascade(_, _)
Cascade(rows, del) ==
    LET ids == {c.id : c \in del}
        more == {c \in rows \ del : c.parent_id # Nil /\ c.parent_id[1] \in ids}
    IN IF more = {} THEN del ELSE Cascade(rows, del \cup more)

\* DELETE FROM comments WHERE path LIKE $1
DeleteLike(rows, pat) == rows \ Cascade(rows, RowsLike(rows, pat))

\* as InsertAllowed, parent_id declared without REFERENCES comments(id)
InsertAllowedWithoutForeignKey(rows, c) ==
    \A r \in rows : r.path_id # c.path_id

\* the constraints an INSERT must meet: the foreign key on parent_id and
\* UNIQUE on path_id
InsertAllowed(rows, c) ==
    /\ IF c.parent_id = Nil THEN TRUE
       ELSE \E r \in rows : r.id = c.parent_id[1]
    /\ \A r \in rows : r.path_id # c.path_id

\* rows as a sequence in a strict total order, before[c] the rows ahead of c
OrderBy(rows, before) ==
    [i \in 1..Cardinality(rows) |->
        CHOOSE c \in rows : Cardinality(before[c]) = i - 1]

PathDesc(rows) == [c \in rows |-> {d \in rows : StrLess(c.path, d.path)}]

\* as SelectChildrenByPath, the "%" of the pattern taken literally
SelectChildrenExact(rows, pat) ==
    LET sel == {c \in rows : c.path \o <<WILD>> = pat}
    IN OrderBy(sel, PathDesc(sel))

\* getChildrenByPathQuery
SelectChildrenByPath(rows, pat) ==
    LET sel == RowsLike(rows, pat)
    IN OrderBy(sel, PathDesc(sel))

(* ------------------------------------------------------------- requests *)
NoReq == [op |-> "none"]

NoLocal == [err |-> ""]

NoRow == [id |-> 0]

NoOut == [proc |-> 0, req |-> NoReq, resp |-> <<>>, ret |-> NoLocal]

Init ==
    /\ comments = {}
    /\ nextId = 1
    /\ clock = 0
    /\ pc = [p \in Procs |-> "idle"]
    /\ req = [p \in Procs |-> NoReq]
    /\ resp = [p \in Procs |-> <<>>]
    /\ local = [p \in Procs |-> NoLocal]
    /\ out = NoOut
    /\ snaps = [p \in Procs |-> {}]

\* c.JSON(status, body)
JSON(status, msg) == [status |-> status, body |-> msg]

\* the handler of request r returns after writing `writes`; ret is what the
\* service returned to it
Finish(p, r, writes, ret) ==
    /\ pc' = [pc EXCEPT ![p] = "idle"]
    /\ req' = [req EXCEPT ![p] = NoReq]
    /\ resp' = [resp EXCEPT ![p] = <<>>]
    /\ local' = [local EXCEPT ![p] = NoLocal]
    /\ out' = [proc |-> p, req |-> r, resp |-> resp[p] \o writes, ret |-> ret]

\* the handler of request r runs down to its first storage call
Begin(p, r, writes, to, loc) ==
    /\ pc' = [pc EXCEPT ![p] = to]
    /\ req' = [req EXCEPT ![p] = r]
    /\ resp' = [resp EXCEPT ![p] = writes]
    /\ local' = [local EXCEPT ![p] = loc]
    /\ out' = NoOut

\* the request goes on to its next storage call
Continue(p, to, loc) ==
    /\ pc' = [pc EXCEPT ![p] = to]
    /\ local' = [local EXCEPT ![p] = loc]
    /\ out' = NoOut
    /\ UNCHANGED <<req, resp>>

(* ------------------------------------------------------- request inputs *)
\* max bounds the ids a request may name
ParentIDs(max) == {Nil} \cup {Ptr(n) : n \in {-1} \cup 1..max}
\* request bodies: one that does not decode, one without text, and comments
Bodies(max) ==
    {[decodes |-> FALSE], [decodes |-> TRUE, comment |-> "", parent_id |-> Nil]}
    \cup {[decodes |-> TRUE, comment |-> "hi", parent_id |-> parent] :
            parent \in ParentIDs(max)}
IdStrs(max) == {"", "abc"} \cup {ToString(n) : n \in 1..max}
\* the requests that pass the handlers' validation
ValidBodies(max) ==
    {b \in Bodies(max) :
        b.decodes /\ b.comment # "" /\ (b.parent_id = Nil \/ b.parent_id[1] >= 0)}
ValidIdStrs(max) == {idStr \in IdStrs(max) : ParseInt(idStr).ok}

(* --------------------------------------------------- POST /comments ---- *)
\* CommentHandler.CreateComment down to the first storage call of
\* Repository.Create, through Service.CreateComment
CreateComment(p, max, bodies) ==
    /\ pc[p] = "idle"
    /\ \E body \in bodies :
        LET r == [op |-> "create", body |-> body] IN
        IF ~body.decodes
        THEN /\ Finish(p, r, <<JSON(400, "Invalid request body")>>, NoLocal)
             /\ UNCHANGED clock
        ELSE IF body.comment = ""
        THEN /\ Finish(p, r, <<JSON(400, "Comment is required")>>, NoLocal)
             /\ UNCHANGED clock
        ELSE LET parent == body.parent_id
                 c == [parent_id |-> parent, path_id |-> UUIDString(clock + 1),
                       comment |-> body.comment, created_at |-> clock + 1]
             IN /\ clock < max
                /\ clock' = clock + 1
                /\ Begin(p, r,
                         IF parent # Nil /\ parent[1] < 0
                         THEN <<JSON(400, "ParentID it can't be negative")>>
                         ELSE <<>>,
                         IF parent # Nil THEN "Create.getPath" ELSE "Create.insert",
                         [err |-> "", c |-> c, parentPath |-> <<>>])
    /\ UNCHANGED <<comments, nextId>>

\* the handler's answer to a failed Service.CreateComment
CreateFailed(p, err) ==
    Finish(p, req[p], <<JSON(400, "Failed to create comment")>>, [err |-> err])

\* as CreateGetPath, sql.ErrNoRows ignored: the comment becomes a root
CreateGetPathIgnoringNoRows(p, canFail) ==
    /\ pc[p] = "Create.getPath"
    /\ LET parent == local[p].c.parent_id[1] IN
       \/ /\ canFail
          /\ CreateFailed(p, "query for parent comment failed")
       \/ Continue(p, "Create.insert",
                   [local[p] EXCEPT !.parentPath =
                       IF parent \in StoredIds THEN RowById(parent).path ELSE <<>>])
    /\ UNCHANGED <<comments, nextId, clock>>

\* Repository.Create: getPathQuery for the parent
CreateGetPath(p, canFail) ==
    /\ pc[p] = "Create.getPath"
    /\ LET parent == local[p].c.parent_id[1] IN
       \/ /\ canFail
          /\ CreateFailed(p, "query for parent comment failed")
       \/ /\ parent \notin StoredIds
          /\ CreateFailed(p, "parent comment not found")
       \/ /\ parent \in StoredIds
          /\ Continue(p, "Create.insert",
                      [local[p] EXCEPT !.parentPath = RowById(parent).path])
    /\ UNCHANGED <<comments, nextId, clock>>

\* the row Repository.Create inserts
NewRow(c, parentPath, id) ==
    [id |-> id, parent_id |-> c.parent_id, path_id |-> c.path_id,
     path |-> NewPath(parentPath, c.path_id), comment |-> c.comment,
     created_at |-> c.created_at]

\* Repository.Create: createQuery, then the handler's answer
CreateInsert(p, canFail) ==
    /\ pc[p] = "Create.insert"
    /\ LET row == NewRow(local[p].c, local[p].parentPath, nextId) IN
       \/ /\ canFail
          /\ CreateFailed(p, "failed to create comment")
          /\ UNCHANGED <<comments, nextId>>
       \/ /\ ~InsertAllowed(comments, row)
          /\ nextId' = nextId + 1
          /\ CreateFailed(p, "failed to create comment: constraint violated")
          /\ UNCHANGED comments
       \/ /\ InsertAllowed(comments, row)
          /\ comments' = comments \cup {row}
          /\ nextId' = nextId + 1
          /\ Finish(p, req[p], <<JSON(201, "comment")>>, NoLocal)
    /\ UNCHANGED clock

(* --------------------------------------------- DELETE /comments/:id ---- *)
\* CommentHandler.DeleteComment down to the first storage call
DeleteComment(p, idStrs) ==
    /\ pc[p] = "idle"
    /\ \E idStr \in idStrs :
        LET r == [op |-> "delete", id |-> idStr] IN
        IF idStr = "" \/ ~ParseInt(idStr).ok
        THEN Finish(p, r, <<JSON(400, "Invalid id")>>, NoLocal)
        ELSE Begin(p, r, <<>>, "Delete.GetByID",
                   [err |-> "", id |-> ParseInt(idStr).v])
    /\ UNCHANGED <<comments, nextId, clock>>

\* the handler's answer to a failed Service.DeleteComments
DeleteFailed(p, err) ==
    Finish(p, req[p], <<JSON(500, "Failed to delete comments")>>, [err |-> err])

\* Service.DeleteComments: Repository.GetByID of the root
DeleteGetByID(p, canFail) ==
    /\ pc[p] = "Delete.GetByID"
    /\ \/ /\ canFail
          /\ DeleteFailed(p, "failed to get comment by ID")
       \/ /\ local[p].id \notin StoredIds
          /\ DeleteFailed(p, "failed to get comment by ID: no rows")
       \/ /\ local[p].id \in StoredIds
          /\ Continue(p, "Delete.DeleteByPath",
                      [err |-> "", id |-> local[p].id,
                       rootComment |-> RowById(local[p].id)])
    /\ UNCHANGED <<comments, nextId, clock>>

\* Service.DeleteComments: Repository.DeleteByPath, then the handler's answer
DeleteByPath(p, canFail) ==
    /\ pc[p] = "Delete.DeleteByPath"
    /\ \/ /\ canFail
          /\ DeleteFailed(p, "failed to delete comment by path")
          /\ UNCHANGED comments
       \/ /\ comments' = DeleteLike(comments, LikePattern(local[p].rootComment.path))
          /\ Finish(p, req[p], <<JSON(200, "id")>>, NoLocal)
    /\ UNCHANGED <<nextId, clock>>

(* ------------------------------------------------ Service.GetComments -- *)
\* as Link, in one pass with the building of commentMap: a record is linked
\* only to a parent that precedes it in all
RECURSIVE LinkInOnePass(_, _, _)
LinkInOnePass(all, i, children) ==
    IF i > Len(all) THEN children
    ELSE LET c == all[i] IN
         IF c.parent_id # Nil /\ c.parent_id[1] \in {all[j].id : j \in 1..(i - 1)}
         THEN LinkInOnePass(all, i + 1,
                   [children EXCEPT ![c.parent_id[1]] = Append(@, c.id)])
         ELSE LinkInOnePass(all, i + 1, children)

\* the second pass of Service.GetComments: every record whose parent is in
\* commentMap is appended to that parent's Children, in the order of all
RECURSIVE Link(_, _, _)
Link(all, i, children) ==
    IF i > Len(all) THEN children
    ELSE LET c == all[i] IN
         IF c.parent_id # Nil /\ c.parent_id[1] \in DOMAIN children
         THEN Link(all, i + 1,
                   [children EXCEPT ![c.parent_id[1]] = Append(@, c.id)])
         ELSE Link(all, i + 1, children)

\* the tree Service.GetComments returns for root and the flat list all: the
\* id of the returned node, and the Children (as ids) of every node built
Assemble(root, all, id) ==
    IF Len(all) <= 1
    THEN [root |-> root.id, children |-> (root.id :> <<>>)]
    ELSE LET commentMap == {all[i].id : i \in 1..Len(all)}
         IN IF id \in commentMap
            THEN [root |-> id,
                  children |-> Link(all, 1, [k \in commentMap |-> <<>>])]
            ELSE [root |-> root.id, children |-> (root.id :> <<>>)]

\* what Service.GetAllCommentTrees returns; beside it, the page of roots it
\* fetched and the roots it logged as failed
ListResult(l, allTrees, topLevel, logged) ==
    [err |-> "",
     result |-> [comments |-> allTrees, total |-> l.total,
                 page |-> l.page, limit |-> l.limit],
     topLevel |-> topLevel, logged |-> logged]

\* GetAllCommentTrees' loop: after a root, fetch the next one or answer
ListAdvance(p, allTrees, logged) ==
    LET l == local[p] IN
    IF l.i < Len(l.topLevel)
    THEN Continue(p, "Get.GetByID",
                  [l EXCEPT !.i = l.i + 1, !.id = l.topLevel[l.i + 1],
                            !.root = NoRow, !.allTrees = allTrees,
                            !.logged = logged])
    ELSE Finish(p, req[p], <<JSON(200, "paginatedResult")>>,
                ListResult(l, allTrees, l.topLevel, logged))

\* as GetFailed, the listing failing with the tree fetch of one root
GetFailedAbortsListing(p, err) ==
    IF req[p].op = "get"
    THEN Finish(p, req[p], <<JSON(500, "Failed to get comments")>>, [err |-> err])
    ELSE Finish(p, req[p], <<JSON(500, "Failed to get all comments")>>, [err |-> err])

\* Service.GetComments returns err to its caller: CommentHandler.GetCommentByID
\* answers 500, GetAllCommentTrees logs the root and continues with the next
GetFailed(p, err) ==
    IF req[p].op = "get"
    THEN Finish(p, req[p], <<JSON(500, "Failed to get comments")>>, [err |-> err])
    ELSE ListAdvance(p, local[p].allTrees,
                     Append(local[p].logged, [id |-> local[p].id, err |-> err]))

\* Service.GetComments returns a tree to its caller
GetReturned(p, tree) ==
    IF req[p].op = "get"
    THEN Finish(p, req[p], <<JSON(200, "comments")>>, [err |-> "", tree |-> tree])
    ELSE ListAdvance(p, Append(local[p].allTrees, tree), local[p].logged)

\* Service.GetComments: Repository.GetByID of the root
GetByID(p, canFail) ==
    /\ pc[p] = "Get.GetByID"
    /\ \/ /\ canFail
          /\ GetFailed(p, "failed to get comment by ID")
       \/ /\ local[p].id \notin StoredIds
          /\ GetFailed(p, "failed to get comment by ID: no rows")
       \/ /\ local[p].id \in StoredIds
          /\ Continue(p, "Get.GetChildrenByPath",
                      [local[p] EXCEPT !.root = RowById(local[p].id)])
    /\ UNCHANGED <<comments, nextId, clock>>

\* Service.GetComments: Repository.GetChildrenByPath and the tree assembly
GetChildrenByPath(p, canFail) ==
    /\ pc[p] = "Get.GetChildrenByPath"
    /\ \/ /\ canFail
          /\ GetFailed(p, "failed to get children by path")
       \/ /\ LET allComments ==
                   SelectChildrenByPath(comments, LikePattern(local[p].root.path))
             IN GetReturned(p, Assemble(local[p].root, allComments, local[p].id))
    /\ UNCHANGED <<comments, nextId, clock>>

(* ------------------------------------------------------ GET /comments -- *)
\* as ClampLimit, a limit above 100 cut to 100
ClampLimitToMax(limit) == IF limit < 1 THEN 10 ELSE IF limit > 100 THEN 100 ELSE limit

\* the effective page and limit of Service.GetAllCommentTrees
ClampPage(page) == IF page < 1 THEN 1 ELSE page
ClampLimit(limit) == IF limit < 1 \/ limit > 100 THEN 10 ELSE limit

\* CommentHandler.GetCommentByID down to the first storage call: of
\* Service.GetComments with ?parent=, of Service.GetAllCommentTrees without
GetCommentByID(p, idStrs, queries) ==
    /\ pc[p] = "idle"
    /\ \/ \E idStr \in idStrs :
            LET r == [op |-> "get", id |-> idStr] IN
            IF ~ParseInt(idStr).ok
            THEN idStr # "" /\ Finish(p, r, <<JSON(400, "Invalid id format")>>, NoLocal)
            ELSE Begin(p, r, <<>>, "Get.GetByID",
                       [err |-> "", id |-> ParseInt(idStr).v, root |-> NoRow])
       \/ \E q \in queries :
            Begin(p, [op |-> "list", query |-> q], <<>>, "List.count",
                  [err |-> "", id |-> 0, root |-> NoRow,
                   page |-> ClampPage(q.page), limit |-> ClampLimit(q.limit),
                   offset |-> (ClampPage(q.page) - 1) * ClampLimit(q.limit),
                   total |-> 0, topLevel |-> <<>>, i |-> 0, allTrees |-> <<>>,
                   logged |-> <<>>])
    /\ UNCHANGED <<comments, nextId, clock>>

\* the handler's answer to a failed Service.GetAllCommentTrees
ListFailed(p, err) ==
    Finish(p, req[p], <<JSON(500, "Failed to get all comments")>>, [err |-> err])

TopLevel(rows) == {c \in rows : c.parent_id = Nil}

\* Repository.GetTopLevelComments: countTopLevelCommentsQuery
ListCount(p, canFail) ==
    /\ pc[p] = "List.count"
    /\ \/ /\ canFail
          /\ ListFailed(p, "failed to get top level comments")
       \/ /\ Continue(p, "List.page",
                      [local[p] EXCEPT !.total = Cardinality(TopLevel(comments))])
    /\ UNCHANGED <<comments, nextId, clock>>

\* ORDER BY sortBy sortOrder of Repository.GetTopLevelComments, after its
\* defaults: created_at unless sortBy is allowed, ASC unless DESC
SortLess(sortBy, sortOrder, c, d) ==
    LET by == IF sortBy \in {"created_at", "id"} THEN sortBy ELSE "created_at"
        order == IF ToUpper(sortOrder) \in {"ASC", "DESC"}
                 THEN ToUpper(sortOrder) ELSE "ASC"
        kc == IF by = "id" THEN c.id ELSE c.created_at
        kd == IF by = "id" THEN d.id ELSE d.created_at
    IN IF order = "ASC" THEN kc < kd ELSE kc > kd

\* ... LIMIT $1 OFFSET $2
LimitOffset(sorted, limit, offset) ==
    SubSeq(sorted, offset + 1,
           IF offset + limit < Len(sorted) THEN offset + limit ELSE Len(sorted))

\* the page query of Repository.GetTopLevelComments
SelectTopLevel(rows, limit, offset, sortBy, sortOrder) ==
    LET top == TopLevel(rows)
        before == [c \in top |-> {d \in top : SortLess(sortBy, sortOrder, d, c)}]
    IN LimitOffset(OrderBy(top, before), limit, offset)

\* Repository.GetTopLevelComments: the page query; Service.GetAllCommentTrees
\* then starts its loop over the page
ListPage(p, canFail) ==
    /\ pc[p] = "List.page"
    /\ \/ /\ canFail
          /\ ListFailed(p, "failed to get top level comments")
       \/ /\ LET l == local[p]
                 q == req[p].query
                 page == SelectTopLevel(comments, l.limit, l.offset,
                                        q.sortBy, q.sortOrder)
                 ids == [k \in 1..Len(page) |-> page[k].id]
             IN IF ids = <<>>
                THEN Finish(p, req[p], <<JSON(200, "paginatedResult")>>,
                            ListResult(l, <<>>, <<>>, <<>>))
                ELSE Continue(p, "Get.GetByID",
                              [l EXCEPT !.topLevel = ids, !.i = 1, !.id = ids[1]])
    /\ UNCHANGED <<comments, nextId, clock>>

(* ------------------------------------------------------- specifications *)
Query(page, limit, sortBy, sortOrder) ==
    [page |-> page, limit |-> limit, sortBy |-> sortBy, sortOrder |-> sortOrder]

\* the listing queries of the sequential specification
Queries ==
    {Query(pg, lim, "id", "asc") : pg \in {0, 2}, lim \in {1, 101}}
    \cup {Query(1, 1, "rating", "desc"), Query(3, 0, "created_at", "up")}

\* the listing queries of the concurrent specification
RaceQueries == {Query(2, 1, "id", "asc"), Query(0, 0, "rating", "desc")}

\* the listing queries of the pagination specification
PageQueries ==
    {Query(pg, 10, "id", "desc") : pg \in 1..3}
    \cup {Query(0, 101, "id", "asc"), Query(2, 0, "created_at", "asc"),
          Query(4, 7, "rating", "DESC"), Query(1, 100, "id", "asc")}

Step(p, max, bodies, idStrs, queries, canFail) ==
    \/ CreateComment(p, max, bodies)
    \/ CreateGetPath(p, canFail)
    \/ CreateInsert(p, canFail)
    \/ DeleteComment(p, idStrs)
    \/ DeleteGetByID(p, canFail)
    \/ DeleteByPath(p, canFail)
    \/ GetCommentByID(p, idStrs, queries)
    \/ GetByID(p, canFail)
    \/ GetChildrenByPath(p, canFail)
    \/ ListCount(p, canFail)
    \/ ListPage(p, canFail)

\* requests that pass validation are served concurrently, each storage call
\* one atomic step that may fail (canFail): the retry strategy is exhausted
Next ==
    \E p \in Procs :
        /\ Step(p, MaxRaceCreates, ValidBodies(MaxRaceCreates),
                ValidIdStrs(MaxRaceCreates), RaceQueries, TRUE)
        /\ UNCHANGED snaps

Spec == Init /\ [][Next]_vars

\* any requests are served one after the other
SeqNext ==
    \E p \in Procs :
        /\ \A q \in Procs \ {p} : pc[q] = "idle"
        /\ Step(p, MaxCreates, Bodies(MaxCreates), IdStrs(MaxCreates), Queries, TRUE)
        /\ UNCHANGED snaps

SeqSpec == Init /\ [][SeqNext]_vars

\* the table after n top-level comments were created one after the other
Roots(n) ==
    {NewRow([parent_id |-> Nil, path_id |-> UUIDString(k), comment |-> "hi",
             created_at |-> k], <<>>, k) : k \in 1..n}

PageInit ==
    /\ \E n \in 0..MaxRoots :
        /\ comments = Roots(n)
        /\ nextId = n + 1
        /\ clock = n
    /\ pc = [p \in Procs |-> "idle"]
    /\ req = [p \in Procs |-> NoReq]
    /\ resp = [p \in Procs |-> <<>>]
    /\ local = [p \in Procs |-> NoLocal]
    /\ out = NoOut
    /\ snaps = [p \in Procs |-> {}]

\* one client pages through the top-level comments of a table nobody writes
PageNext ==
    /\ \/ GetCommentByID(1, {"1"}, PageQueries)
       \/ GetByID(1, FALSE)
       \/ GetChildrenByPath(1, FALSE)
       \/ ListCount(1, FALSE)
       \/ ListPage(1, FALSE)
    /\ UNCHANGED snaps

PageSpec == PageInit /\ [][PageNext]_vars

\* the subtree of id stored in rows: its root, its nodes (the rows with the
\* root's path as prefix) and its (parent id, child id) edges; no root if
\* rows holds no comment id
StoredSubtree(rows, id) ==
    IF \A c \in rows : c.id # id
    THEN [root |-> 0, nodes |-> {}, edges |-> {}]
    ELSE LET r == CHOOSE c \in rows : c.id = id
             sub == RowsLike(rows, LikePattern(r.path))
         IN [root |-> id,
             nodes |-> {c.id : c \in sub},
             edges |-> {<<e[1].id, e[2].id>> :
                           e \in {f \in sub \X sub : f[2].parent_id = Ptr(f[1].id)}}]

\* GET /comments?parent=<id> of request q is inside Service.GetComments
InGetComments(q) ==
    /\ req'[q].op = "get"
    /\ pc'[q] \in {"Get.GetByID", "Get.GetChildrenByPath"}

\* the requests of Next, with the history of the GetComments calls: from the
\* call to the return every step adds the subtree of the call's id as stored
\* after the step
SnapNext ==
    \E p \in Procs :
        /\ Step(p, MaxRaceCreates, ValidBodies(MaxRaceCreates),
                ValidIdStrs(MaxRaceCreates), RaceQueries, TRUE)
        /\ snaps' = [q \in Procs |->
                        IF InGetComments(q)
                        THEN snaps[q] \cup {StoredSubtree(comments', local'[q].id)}
                        ELSE {}]

SnapSpec == Init /\ [][SnapNext]_vars
(* ------------------------------------------------------------ properties *)
\* pre is a prefix of the string s
HasPrefix(s, pre) == Len(pre) <= Len(s) /\ SubSeq(s, 1, Len(pre)) = pre

\* request p takes the step
Steps(p) == pc'[p] # pc[p] \/ local'[p] # local[p]

\* the status the caller sees: the first c.JSON of a response sets it
Status(o) == o.resp[1].status

\* C1: every stored comment without a parent has path = path_id + "/", and
\* every stored comment has the path of its stored parent followed by its
\* own path_id and "/"
PathInvariant ==
    \A c \in comments :
        /\ c.parent_id = Nil => c.path = c.path_id \o <<SEP>>
        /\ \A par \in comments :
              c.parent_id = Ptr(par.id) => c.path = par.path \o c.path_id \o <<SEP>>

\* a reply is stored below a reply
PathInvariantWitness ==
    \E c \in comments, par \in comments :
        /\ c.parent_id = Ptr(par.id)
        /\ par.parent_id # Nil
        /\ Len(c.path) > Len(par.path)

\* C2: the delete of R removes exactly the rows whose path has path(R) as a
\* prefix and changes no other row; an id that is no longer stored is never
\* stored again, and a fetch of an id that is not stored fails, with "no rows"
\* unless the storage call itself failed
DeleteRemovesSubtree ==
    [][/\ \A p \in Procs :
            (/\ pc[p] = "Delete.DeleteByPath" /\ Steps(p)
             /\ out'.ret.err # "failed to delete comment by path") =>
               /\ comments' = {c \in comments :
                                 ~HasPrefix(c.path, local[p].rootComment.path)}
               /\ Status(out') = 200
       /\ \A id \in 1..(nextId - 1) : id \notin StoredIds => id \notin StoredIds'
       /\ \A p \in Procs :
            (/\ pc[p] = "Get.GetByID" /\ req[p].op = "get" /\ Steps(p)
             /\ local[p].id \notin StoredIds) =>
               /\ out'.proc = p
               /\ out'.ret.err \in {"failed to get comment by ID: no rows",
                                    "failed to get comment by ID"}
      ]_vars

\* a delete has removed a comment together with a reply, and another comment
\* is still stored
DeleteRemovesSubtreeWitness ==
    /\ out.req.op = "delete"
    /\ Status(out) = 200
    /\ comments # {}
    /\ \E id \in 1..(nextId - 1) : id \notin StoredIds /\ id # ParseInt(out.req.id).v

\* C3: every stored comment with a parent_id has its parent stored
NoOrphans ==
    \A c \in comments : c.parent_id # Nil => c.parent_id[1] \in StoredIds

\* a create found its parent, the parent was deleted before the insert, and
\* the insert was refused
NoOrphansWitness ==
    /\ out.req.op = "create"
    /\ out.ret.err = "failed to create comment: constraint violated"

\* C4: a create whose parent lookup finds no row ends there without a write,
\* answered as a failure, with the parent-not-found error unless the lookup
\* itself failed
MissingParentNoWrite ==
    [][\A p \in Procs :
         (/\ pc[p] = "Create.getPath" /\ Steps(p)
          /\ local[p].c.parent_id[1] \notin StoredIds) =>
            /\ comments' = comments
            /\ nextId' = nextId
            /\ pc'[p] = "idle"
            /\ out'.proc = p
            /\ Status(out') = 400
            /\ out'.ret.err \in {"parent comment not found",
                                 "query for parent comment failed"}
      ]_vars

\* a create with a non-negative parent id has failed as parent not found
MissingParentNoWriteWitness ==
    /\ out.req.op = "create"
    /\ out.ret.err = "parent comment not found"
    /\ out.req.body.parent_id[1] >= 1

\* C5: a create request that fails validation makes no storage call and
\* writes only the bad-input response
InvalidCreateNoStorage ==
    /\ \A p \in Procs :
         (req[p].op = "create" /\ pc[p] \in {"Create.getPath", "Create.insert"}) =>
            /\ req[p].body.comment # ""
            /\ req[p].body.parent_id = Nil \/ req[p].body.parent_id[1] >= 0
    /\ (out.req.op = "create" /\ out.req.body.decodes
        /\ (out.req.body.comment = ""
            \/ (out.req.body.parent_id # Nil /\ out.req.body.parent_id[1] < 0)))
       => Len(out.resp) = 1

\* the nodes of a returned tree in preorder, each as often as it occurs
RECURSIVE Preorder(_, _), PreorderAll(_, _)
Preorder(t, n) == <<n>> \o PreorderAll(t, t.children[n])
PreorderAll(t, ks) ==
    IF ks = <<>> THEN <<>>
    ELSE Preorder(t, Head(ks)) \o PreorderAll(t, Tail(ks))

Range(f) == {f[i] : i \in DOMAIN f}

\* the (parent id, child id) edges of a returned tree
Edges(t) ==
    {e \in Range(Preorder(t, t.root)) \X Range(Preorder(t, t.root)) :
        e[2] \in Range(t.children[e[1]])}

\* the stored ids whose path has the path of the stored comment id as prefix
SubtreeIds(id) ==
    {c.id : c \in {d \in comments : HasPrefix(d.path, RowById(id).path)}}

\* C6: a successful GetComments(id) returns id as the root of a tree whose
\* nodes are exactly the stored comments with the root's path as prefix, each
\* once, and where x is a child of y exactly if parent_id(x) = id(y)
GetReturnsSubtree ==
    (out.req.op = "get" /\ out.ret.err = "" /\ Len(out.resp) = 1
     /\ Status(out) = 200) =>
        LET id == ParseInt(out.req.id).v
            t == out.ret.tree
            nodes == Preorder(t, t.root)
        IN /\ id \in StoredIds
           /\ t.root = id
           /\ Range(nodes) = SubtreeIds(id)
           /\ Len(nodes) = Cardinality(SubtreeIds(id))
           /\ \A x \in SubtreeIds(id), y \in SubtreeIds(id) :
                 x \in Range(t.children[y]) <=> RowById(x).parent_id = Ptr(y)

\* the chain 1 <- 2 <- 3 fetched at 1
GetReturnsSubtreeWitness ==
    /\ out.req.op = "get"
    /\ out.req.id = "1"
    /\ out.ret.err = ""
    /\ out.ret.tree = [root |-> 1,
                       children |-> (1 :> <<2>> @@ 2 :> <<3>> @@ 3 :> <<>>)]

\* C7: the tree a successful GetComments returns has the root and the edges
\* that the assembly yields for every permutation of the flat record list
AssemblyOrderInvariant ==
    (out.req.op = "get" /\ out.ret.err = "" /\ Status(out) = 200) =>
        LET id == ParseInt(out.req.id).v
            root == RowById(id)
            all == SelectChildrenByPath(comments, LikePattern(root.path))
        IN \A perm \in Permutations(1..Len(all)) :
              LET shuffled == [i \in 1..Len(all) |-> all[perm[i]]]
                  t == Assemble(root, shuffled, id)
              IN t.root = out.ret.tree.root /\ Edges(t) = Edges(out.ret.tree)

\* a tree of three comments with a reply to a reply was returned
AssemblyOrderInvariantWitness ==
    /\ out.req.op = "get"
    /\ out.ret.err = ""
    /\ Status(out) = 200
    /\ Cardinality(Edges(out.ret.tree)) = 2
    /\ \E e \in Edges(out.ret.tree) : e[1] # out.ret.tree.root

Min(a, b) == IF a < b THEN a ELSE b
Max(a, b) == IF a > b THEN a ELSE b

\* C8: GetAllCommentTrees answers with page < 1 replaced by 1 and a limit
\* outside 1..100 by 10, with total = T, the number of top-level comments,
\* and with min(limit, max(0, T - (page - 1) * limit)) trees
PaginationCounts ==
    (out.req.op = "list" /\ out.ret.err = "" /\ out.ret.logged = <<>>) =>
        LET q == out.req.query
            r == out.ret.result
            T == Cardinality({c \in comments : c.parent_id = Nil})
            page == IF q.page < 1 THEN 1 ELSE q.page
            limit == IF q.limit \in 1..100 THEN q.limit ELSE 10
        IN /\ Status(out) = 200
           /\ r.page = page
           /\ r.limit = limit
           /\ r.total = T
           /\ Len(r.comments) = Min(limit, Max(0, T - (page - 1) * limit))

\* page 3 of 25 top-level comments, 10 a page, has 5 trees
PaginationCountsWitness ==
    /\ out.req.op = "list"
    /\ out.req.query.page = 3
    /\ out.req.query.limit = 10
    /\ out.ret.result.total = 25
    /\ Len(out.ret.result.comments) = 5

\* C9: a listing that got its page of roots answers 200, whatever happens to
\* the tree fetches: its trees are, in page order, those of the roots of the
\* page that were not logged as failed; and no step of a listing writes
ListSkipsFailedRoot ==
    [][/\ \A p \in Procs :
            (req[p].op = "list" /\ Steps(p)) =>
               /\ comments' = comments
               /\ nextId' = nextId
               /\ pc[p] \in {"Get.GetByID", "Get.GetChildrenByPath"} =>
                     \/ pc'[p] \in {"Get.GetByID", "Get.GetChildrenByPath"}
                     \/ out'.proc = p /\ out'.ret.err = ""
       /\ (out'.req.op = "list" /\ out'.ret.err = "") =>
            LET r == out'.ret
                failed == {r.logged[i].id : i \in DOMAIN r.logged}
            IN /\ Status(out') = 200
               /\ [i \in DOMAIN r.result.comments |-> r.result.comments[i].root]
                    = SelectSeq(r.topLevel, LAMBDA id : id \notin failed)
               /\ Len(r.logged) + Len(r.result.comments) = Len(r.topLevel)
      ]_vars

\* a listing has skipped a root that was deleted after the page query and
\* returned the tree of another root of the page
ListSkipsFailedRootWitness ==
    /\ out.req.op = "list"
    /\ out.ret.err = ""
    /\ Len(out.ret.result.comments) = 1
    /\ Len(out.ret.logged) = 1
    /\ out.ret.logged[1].err = "failed to get comment by ID: no rows"

\* C10: a fetch or delete of an id that names no stored comment is answered
\* 404, and a create whose parent is missing is not answered like a create
\* whose storage call failed
FailuresDistinguishable ==
    /\ (out.req.op \in {"get", "delete"}
        /\ out.ret.err = "failed to get comment by ID: no rows")
       => Status(out) = 404
    /\ (out.req.op = "create" /\ out.ret.err = "parent comment not found")
       => out.resp # <<JSON(400, "Failed to create comment")>>

\* the root, the nodes and the edges of a returned tree
TreeShape(t) ==
    [root |-> t.root, nodes |-> Range(Preorder(t, t.root)), edges |-> Edges(t)]

\* C11: under any interleaving with concurrent deletes and creates, the tree
\* a successful GetComments(id) returns equals the stored subtree of id at
\* some single instant between the call and its return
SnapshotConsistentRead ==
    [][\A p \in Procs :
          (out'.proc = p /\ out'.req.op = "get" /\ out'.ret.err = ""
           /\ Len(out'.resp) = 1 /\ Status(out') = 200)
          => TreeShape(out'.ret.tree) \in snaps[p]]_vars

====
